---- MODULE Spec2Model ----
(***************************************************************************)
(* A model of the SEO crawler API: the three crawl operations              *)
(* (runSerpCrawler, runCompetitorCrawler, runReviewCrawler), their         *)
(* extraction adapters, the competitor diff engine and the HTTP routes in  *)
(* front of them.                                                          *)
(*                                                                         *)
(* Pure functions (detectChanges, extractSerpResults, the review adapters, *)
(* the rating statistics) are operators; each is exercised by a harness    *)
(* specification that draws its arguments in Init (variable input) and     *)
(* applies it in one action (variable output).  The crawl itself is the    *)
(* specification Spec.                                                     *)
(***************************************************************************)
EXTENDS Integers, Sequences, FiniteSets, TLC

VARIABLES
    input,      \* harness: the arguments of the function under check
    output,     \* harness: <<>> before the call, <<value>> after it
    kind,       \* crawl: "serp", "competitor" or "review" ("none" before a call)
    via,        \* crawl: "route" (through the HTTP route) or "direct"
    config,     \* crawl: the config / request body of the current call
    phase,      \* crawl: "idle", "running", "returned", "threw", "rejected"
    req,        \* crawl: the crawler's requests, one record per target
    results,    \* crawl: the in-memory results array
    store,      \* crawl: the 'competitor-snapshots' key-value store
    storeAtCall,\* crawl: the store as it was when the current call was made
    logged,     \* crawl: the requests failedRequestHandler logged
    runs        \* crawl: calls made so far

harnessVars == <<input, output>>
crawlVars == <<kind, via, config, phase, req, results, store, storeAtCall, logged, runs>>
vars == <<input, output, kind, via, config, phase, req, results, store, storeAtCall,
          logged, runs>>

(***************************************************************************)
(* Optional values: null / undefined is <<>>, a present value v is <<v>>.  *)
(***************************************************************************)
Null == <<>>
Some(v) == <<v>>
IsNull(o) == o = <<>>
Get(o) == o[1]

Abs(n) == IF n < 0 THEN -n ELSE n
Min(a, b) == IF a < b THEN a ELSE b

(***************************************************************************)
(* Bounds of the page contents drawn by the harnesses.                     *)
(***************************************************************************)
MaxHeadings == 1        \* longest h1 list
MaxImages == 1          \* largest <img> count
MaxLinks == 6           \* largest internal-link count
Texts == {"A"}
WordCounts == {0, 120}
ExternalCounts == {0, 1}

ListsUpTo(S, n) == UNION {[1..k -> S] : k \in 0..n}

(***************************************************************************)
(* JSON.stringify of an array of arrays of strings, as a token sequence.   *)
(* A string is one token (JSON quotes it, so it never reads as a           *)
(* delimiter).                                                             *)
(***************************************************************************)
RECURSIVE JsonItems(_)
JsonItems(items) ==
    IF Len(items) = 0 THEN <<>>
    ELSE IF Len(items) = 1 THEN items[1]
    ELSE items[1] \o <<",">> \o JsonItems(Tail(items))

JsonArray(items) == <<"[">> \o JsonItems(items) \o <<"]">>

JsonStrings(strs) == JsonArray([i \in 1..Len(strs) |-> <<strs[i]>>])

JsonStringify(lists) == JsonArray([i \in 1..Len(lists) |-> JsonStrings(lists[i])])

(***************************************************************************)
(* crypto.createHash('md5').update(s).digest('hex'): a digest of the       *)
(* token sequence.  MD5 collisions are not modelled: distinct inputs give  *)
(* distinct digests.                                                       *)
(***************************************************************************)
Md5(data) == [md5 |-> data]

(***************************************************************************)
(* extractPageContent: what page.evaluate returns for a page (contentHash  *)
(* still ''), then the digest of [h1, h2, h3, paragraphs] added.           *)
(***************************************************************************)
EvaluatedContents(url, times) ==
    [url : {url},
     h1 : ListsUpTo(Texts, MaxHeadings),
     h2 : {<<>>},
     h3 : {<<>>},
     wordCount : WordCounts,
     contentHash : {Md5(<<>>)},
     paragraphs : {<<>>, <<"A">>},
     images : 0..MaxImages,
     internalLinks : 0..MaxLinks,
     externalLinks : ExternalCounts,
     crawledAt : times]

extractPageContent(content) ==
    [content EXCEPT !.contentHash =
        Md5(JsonStringify(<<content.h1, content.h2, content.h3, content.paragraphs>>))]

PageContents(url, times) ==
    {extractPageContent(c) : c \in EvaluatedContents(url, times)}

(***************************************************************************)
(* detectChanges(previous, current)                                        *)
(***************************************************************************)
LinkTolerance == 5

\* a deep comparison of the two snapshots instead of their digests
contentChangedDeep(prev, current) == prev # current

headingsChanged(prev, current) ==
    JsonStringify(<<prev.h1, prev.h2, prev.h3>>)
        # JsonStringify(<<current.h1, current.h2, current.h3>>)

contentChanged(prev, current) == prev.contentHash # current.contentHash

wordCountDiff(prev, current) == current.wordCount - prev.wordCount

\* the tolerance taken inclusively
structureChangedInclusive(prev, current) ==
    \/ prev.images # current.images
    \/ Abs(prev.internalLinks - current.internalLinks) >= LinkTolerance

structureChanged(prev, current) ==
    \/ prev.images # current.images
    \/ Abs(prev.internalLinks - current.internalLinks) > LinkTolerance

\* no baseline case: a missing previous snapshot is compared as an empty page
detectChangesNoBaseline(previous, current) ==
    LET prev == IF IsNull(previous)
                THEN [current EXCEPT !.h1 = <<>>, !.paragraphs = <<>>,
                                     !.contentHash = Md5(<<>>), !.wordCount = 0,
                                     !.images = 0, !.internalLinks = 0]
                ELSE Get(previous)
    IN [headingsChanged |-> headingsChanged(prev, current),
        contentChanged |-> contentChanged(prev, current),
        wordCountDiff |-> wordCountDiff(prev, current),
        structureChanged |-> structureChanged(prev, current)]

detectChanges(previous, current) ==
    IF IsNull(previous)
    THEN [headingsChanged |-> FALSE,
          contentChanged |-> FALSE,
          wordCountDiff |-> 0,
          structureChanged |-> FALSE]
    ELSE LET prev == Get(previous) IN
         [headingsChanged |-> headingsChanged(prev, current),
          contentChanged |-> contentChanged(prev, current),
          wordCountDiff |-> wordCountDiff(prev, current),
          structureChanged |-> structureChanged(prev, current)]

\* only the boolean flags counted
hasChangesFlagsOnly(changes) ==
    \/ changes.headingsChanged
    \/ changes.contentChanged
    \/ changes.structureChanged

(***************************************************************************)
(* Object.values(changes).some(v => typeof v === 'boolean' ? v : v !== 0)  *)
(***************************************************************************)
hasChanges(changes) ==
    \/ changes.headingsChanged
    \/ changes.contentChanged
    \/ changes.wordCountDiff # 0
    \/ changes.structureChanged

(***************************************************************************)
(* The record the competitor requestHandler pushes, from the snapshot it   *)
(* read and the one it extracted.                                          *)
(***************************************************************************)
CompetitorResultOf(url, previousSnapshot, currentSnapshot) ==
    LET changes == detectChanges(previousSnapshot, currentSnapshot) IN
    [url |-> url,
     previousSnapshot |-> previousSnapshot,
     currentSnapshot |-> currentSnapshot,
     changes |-> changes,
     hasChanges |-> hasChanges(changes)]

(***************************************************************************)
(* The snapshot store: keyed by createSnapshotKey(url), the MD5 digest of  *)
(* the URL string; getValue gives null for a key never set.                *)
(***************************************************************************)
CompetitorUrls == {"https://a.example", "https://b.example", "not a url"}

\* one key for every URL
createSnapshotKeyShared(url) == Md5(<<>>)

createSnapshotKey(url) == Md5(<<url>>)

SnapshotKeys == {createSnapshotKey(u) : u \in CompetitorUrls}

\* the state of the service before any call; the harnesses leave it alone
CrawlIdle ==
    /\ kind = "none"
    /\ via = "none"
    /\ config = <<>>
    /\ phase = "idle"
    /\ req = <<>>
    /\ results = <<>>
    /\ store = [k \in SnapshotKeys |-> Null]
    /\ storeAtCall = [k \in SnapshotKeys |-> Null]
    /\ logged = {}
    /\ runs = 0

(***************************************************************************)
(* Harness of the diff engine: any stored previous snapshot (or none) and  *)
(* any current snapshot of the same URL.                                   *)
(***************************************************************************)
DiffInit ==
    /\ input \in [url : {"u1"},
                  previous : {Null} \cup {Some(s) : s \in PageContents("u1", {0})},
                  current : PageContents("u1", {1})]
    /\ output = <<>>
    /\ CrawlIdle

DiffApply ==
    /\ output = <<>>
    /\ output' = Some(CompetitorResultOf(input.url, input.previous, input.current))
    /\ UNCHANGED <<input, crawlVars>>

DiffNext == DiffApply

SpecDiff == DiffInit /\ [][DiffNext]_vars

(***************************************************************************)
(* extractSerpResults(page, keyword, maxResults).  The page is the list    *)
(* of its 'a h3' nodes in document order; node i has link.href = i when    *)
(* its anchor carries an href, and an empty href otherwise.                *)
(***************************************************************************)
MaxCandidates == 8      \* most 'a h3' nodes on a page
MaxResultsArg == 6      \* largest maxResults drawn

SerpPages == UNION {[1..n -> [hasHref : BOOLEAN]] : n \in 0..MaxCandidates}

RECURSIVE SerpLoop(_, _, _, _, _, _)
SerpLoop(page, keyword, maxResults, i, position, found) ==
    IF i > Len(page) THEN found
    ELSE IF position > maxResults THEN found
    ELSE IF ~page[i].hasHref
         THEN SerpLoop(page, keyword, maxResults, i + 1, position, found)
         ELSE SerpLoop(page, keyword, maxResults, i + 1, position + 1,
                       Append(found, [keyword |-> keyword,
                                        position |-> position,
                                        url |-> i]))

\* position++ made before the href test: a skipped node consumes a position
RECURSIVE SerpLoopSparse(_, _, _, _, _, _)
SerpLoopSparse(page, keyword, maxResults, i, position, found) ==
    IF i > Len(page) THEN found
    ELSE IF position > maxResults THEN found
    ELSE SerpLoopSparse(page, keyword, maxResults, i + 1, position + 1,
                        IF page[i].hasHref
                        THEN Append(found, [keyword |-> keyword,
                                              position |-> position,
                                              url |-> i])
                        ELSE found)

extractSerpResultsSparse(page, keyword, maxResults) ==
    SerpLoopSparse(page, keyword, maxResults, 1, 1, <<>>)

extractSerpResults(page, keyword, maxResults) ==
    SerpLoop(page, keyword, maxResults, 1, 1, <<>>)

SerpInit ==
    /\ input \in [page : SerpPages,
                  keyword : {"test query"},
                  maxResults : 0..MaxResultsArg]
    /\ output = <<>>
    /\ CrawlIdle

SerpApply ==
    /\ output = <<>>
    /\ output' = Some(extractSerpResults(input.page, input.keyword, input.maxResults))
    /\ UNCHANGED <<input, crawlVars>>

SerpNext == SerpApply

SpecSerp == SerpInit /\ [][SerpNext]_vars

(***************************************************************************)
(* The review adapters.  A page is the list of its review cards in page    *)
(* order; card i has the text "i" when its text element is present.  A     *)
(* rating attribute is absent or a number, written in tenths (45 is 4.5).  *)
(***************************************************************************)
MaxCards == 3           \* most review cards on a page
MaxReviewsArg == 3      \* largest maxReviewsPerSource drawn
RatingAttrs == {Null, Some(40), Some(45)}
SourceTypes == {"trustpilot", "g2", "google"}

Cards == [reviewer : BOOLEAN, text : BOOLEAN, rating : RatingAttrs]
ReviewPages == UNION {[1..n -> Cards] : n \in 0..MaxCards}

\* parseInt("4.5") is 4; the google adapter reads the first digit of the label
parseInt(tenths) == (tenths \div 10) * 10
parseFloat(tenths) == tenths

\* reviewCards.forEach((card, index) => { if (index >= maxReviews) return; ... }):
\* the (1-based) cards the callback pushes a review for, in page order;
\* accepted[i] tells whether card i has the adapter's required elements
RECURSIVE ForEachCard(_, _, _, _)
ForEachCard(accepted, maxReviews, index, pushed) ==
    IF index >= Len(accepted) THEN pushed
    ELSE IF index >= maxReviews
         THEN ForEachCard(accepted, maxReviews, index + 1, pushed)
         ELSE ForEachCard(accepted, maxReviews, index + 1,
                          IF accepted[index + 1] THEN Append(pushed, index + 1)
                          ELSE pushed)

ReviewsOf(cards, maxReviews, Accepts(_), Review(_, _)) ==
    LET pushed == ForEachCard([i \in 1..Len(cards) |-> Accepts(cards[i])],
                              maxReviews, 0, <<>>)
    IN [j \in 1..Len(pushed) |-> Review(cards[pushed[j]], pushed[j])]

extractTrustpilotReviews(cards, businessName, maxReviews) ==
    LET Accepts(card) == card.reviewer /\ card.text
        Review(card, i) ==
            [source |-> "trustpilot",
             businessName |-> businessName,
             reviewerName |-> "name",
             rating |-> IF IsNull(card.rating) THEN 0 ELSE parseInt(Get(card.rating)),
             reviewText |-> i]
    IN ReviewsOf(cards, maxReviews, Accepts, Review)

extractG2Reviews(cards, businessName, maxReviews) ==
    LET Accepts(card) == card.text
        Review(card, i) ==
            [source |-> "g2",
             businessName |-> businessName,
             reviewerName |-> IF card.reviewer THEN "name" ELSE "Anonymous",
             rating |-> IF IsNull(card.rating) THEN 0 ELSE parseFloat(Get(card.rating)),
             reviewText |-> i]
    IN ReviewsOf(cards, maxReviews, Accepts, Review)

extractGoogleReviews(cards, businessName, maxReviews) ==
    LET Accepts(card) == card.text
        Review(card, i) ==
            [source |-> "google",
             businessName |-> businessName,
             reviewerName |-> IF card.reviewer THEN "name" ELSE "Anonymous",
             rating |-> IF IsNull(card.rating) THEN 0 ELSE parseInt(Get(card.rating)),
             reviewText |-> i]
    IN ReviewsOf(cards, maxReviews, Accepts, Review)

\* let reviews = []; switch (source.type) { ... }: no case matches another type
extractReviews(source, cards, maxReviewsPerSource) ==
    CASE source.type = "trustpilot" ->
             extractTrustpilotReviews(cards, source.businessName, maxReviewsPerSource)
      [] source.type = "g2" ->
             extractG2Reviews(cards, source.businessName, maxReviewsPerSource)
      [] source.type = "google" ->
             extractGoogleReviews(cards, source.businessName, maxReviewsPerSource)
      [] OTHER -> <<>>

RECURSIVE SumRatings(_)
SumRatings(reviews) ==
    IF Len(reviews) = 0 THEN 0
    ELSE reviews[1].rating + SumRatings(Tail(reviews))

(***************************************************************************)
(* Math.round(averageRating * 100) / 100, with averageRating the sum over  *)
(* the count or 0.  Ratings are in tenths, the result is in hundredths:    *)
(* Math.round(x) is floor(x + 1/2), and x = 10 * sum / count.              *)
(***************************************************************************)
\* Math.floor in place of Math.round
averageRatingTruncated(reviews) ==
    IF Len(reviews) > 0 THEN (10 * SumRatings(reviews)) \div Len(reviews) ELSE 0

averageRating(reviews) ==
    LET totalReviews == Len(reviews) IN
    IF totalReviews > 0
    THEN (20 * SumRatings(reviews) + totalReviews) \div (2 * totalReviews)
    ELSE 0

\* the record the review requestHandler pushes
ReviewResultOf(source, reviews) ==
    [source |-> source.type,
     businessName |-> source.businessName,
     reviews |-> reviews,
     averageRating |-> averageRating(reviews),
     totalReviews |-> Len(reviews)]

ReviewInit ==
    /\ input \in [source : [type : SourceTypes, businessName : {"Example Inc"}],
                  cards : ReviewPages,
                  maxReviewsPerSource : 0..MaxReviewsArg]
    /\ output = <<>>
    /\ CrawlIdle

ReviewApply ==
    /\ output = <<>>
    /\ output' = Some(ReviewResultOf(input.source,
                     extractReviews(input.source, input.cards, input.maxReviewsPerSource)))
    /\ UNCHANGED <<input, crawlVars>>

ReviewNext == ReviewApply

SpecReview == ReviewInit /\ [][ReviewNext]_vars

(***************************************************************************)
(*                The crawl operations and their routes                    *)
(*                                                                         *)
(* One call at a time: a route (or a direct caller) invokes one of         *)
(* runSerpCrawler / runCompetitorCrawler / runReviewCrawler, which builds  *)
(* a PlaywrightCrawler, runs it over the requests and returns the results  *)
(* array.  The crawler is Crawlee's: it keeps at most maxConcurrency       *)
(* requests in flight, navigates to a request's URL before calling         *)
(* requestHandler, retries a request whose navigation or handler failed    *)
(* while request.retryCount < maxRequestRetries, and calls                 *)
(* failedRequestHandler once for a request that ran out of retries; run()  *)
(* resolves when every request is handled or failed.  A step of a handler  *)
(* is the code between two of its awaits.                                  *)
(***************************************************************************)
MaxTargets == 2         \* longest keywords / urls / sources list drawn
MaxRuns == 2            \* calls made in one behaviour

\* one retry more than configured
maxRequestRetriesPlusOne == 3 + 1

maxRequestRetries == 3
maxResultsDefault == 10
maxReviewsPerSourceDefault == 50

\* one cap of 2 for every kind of crawl
maxConcurrencyShared(k) == 2

maxConcurrency(k) == IF k = "competitor" THEN 2 ELSE 1

\* minDelay = 3000, maxDelay = 8000: the defaults of runSerpCrawler and of the route
minDelayDefault == 3000
maxDelayDefault == 8000
\* the fixed setTimeout of the competitor handler and of the review handler
competitorDelay == 2000
reviewDelay == 3000

\* minDelay / maxDelay of a call: absent, or a number of milliseconds
DelayArgs == {Null, Some(-2000), Some(8000)}

\* Math.random(): a number r with 0 <= r < 1, here RandomNumerators / RandomDenominator
RandomDenominator == 2
RandomNumerators == 0..(RandomDenominator - 1)

\* const delay = Math.random() * (maxDelay - minDelay) + minDelay
serpDelay(random, minDelay, maxDelay) ==
    (random * (maxDelay - minDelay)) \div RandomDenominator + minDelay

\* the delay each kind of handler passes to setTimeout
Delays(k, cfg) ==
    CASE k = "serp" -> {serpDelay(r, cfg.minDelay, cfg.maxDelay) : r \in RandomNumerators}
      [] k = "competitor" -> {competitorDelay}
      [] k = "review" -> {reviewDelay}

\* setTimeout(resolve, delay) of Node: a delay below 1 ms runs as 1 ms
TimerDuration(delay) == IF delay < 1 THEN 1 ELSE delay

Kinds == {"serp", "competitor", "review"}

\* a keyword is a string, or some other JSON value (the number 123)
SerpKeywords == {[text |-> "seo tools", isString |-> TRUE],
                 [text |-> "123", isString |-> FALSE]}

ReviewSources == {[type |-> "g2", url |-> "https://g2.example/p",
                   businessName |-> "Example Inc"],
                  [type |-> "yelp", url |-> "https://yelp.example/p",
                   businessName |-> "Example Inc"]}

TargetsOf(k) ==
    CASE k = "serp" -> SerpKeywords
      [] k = "competitor" -> CompetitorUrls
      [] k = "review" -> ReviewSources

\* new URL(url) throws for a string that is no URL
IsUrl(url) == url # "not a url"

\* the validation of the routes: 400 before the operation is called
RouteRejects(k, body) ==
    CASE k = "serp" ->
             \/ Len(body.targets) = 0
             \/ \E i \in 1..Len(body.targets) : ~body.targets[i].isString
      [] k = "competitor" ->
             \/ Len(body.targets) = 0
             \/ \E i \in 1..Len(body.targets) : ~IsUrl(body.targets[i])
      [] k = "review" ->
             \/ Len(body.targets) = 0
             \/ \E i \in 1..Len(body.targets) :
                    body.targets[i].type \notin {"google", "trustpilot", "g2"}

\* the validation of the operations: throw new Error('At least one ... is required')
OperationThrows(k, cfg) == Len(cfg.targets) = 0

\* the request each operation builds for a target
RequestOf(k, cfg, target) ==
    CASE k = "serp" ->
             [url |-> <<"https://www.google.com/search?q=", target.text,
                        "&num=", maxResultsDefault>>,
              userData |-> target]
      [] k = "competitor" -> [url |-> target, userData |-> target]
      [] k = "review" -> [url |-> target.url, userData |-> target]

\* a queue that takes every request, duplicates of a URL included
RECURSIVE EnqueueAll(_, _)
EnqueueAll(requests, queue) ==
    IF Len(requests) = 0 THEN queue
    ELSE EnqueueAll(Tail(requests), Append(queue, requests[1]))

\* crawler.run(requests): the request queue keeps one request per URL
RECURSIVE Enqueue(_, _)
Enqueue(requests, queue) ==
    IF Len(requests) = 0 THEN queue
    ELSE Enqueue(Tail(requests),
                 IF \E j \in 1..Len(queue) : queue[j].url = requests[1].url
                 THEN queue
                 ELSE Append(queue, requests[1]))

NewRequest(r) ==
    [url |-> r.url, userData |-> r.userData,
     pc |-> "queued", retryCount |-> 0, attempts |-> 0, error |-> "none",
     settleTimedOut |-> FALSE, delay |-> Null, current |-> Null, previous |-> Null, pushed |-> 0]

Requests(k, cfg) ==
    LET queue == Enqueue([i \in 1..Len(cfg.targets) |->
                             RequestOf(k, cfg, cfg.targets[i])], <<>>)
    IN [i \in 1..Len(queue) |-> NewRequest(queue[i])]

InFlight == {i \in 1..Len(req) : req[i].pc \notin {"queued", "done", "failed"}}

InHandler == {i \in 1..Len(req) :
                 req[i].pc \in {"loaded", "delaying", "extracting", "reading", "writing"}}

RECURSIVE SumAttempts(_)
SumAttempts(i) == IF i = 0 THEN 0 ELSE req[i].attempts + SumAttempts(i - 1)

\* navigations started in the current call
Navigations == SumAttempts(Len(req))

Init ==
    /\ input = <<>>
    /\ output = <<>>
    /\ CrawlIdle

(***************************************************************************)
(* A call: through the route, which validates the body and answers 400,    *)
(* or directly.  The operation validates, opens the store and builds the   *)
(* crawler and its requests.                                               *)
(***************************************************************************)
Call ==
    /\ phase \in {"idle", "returned", "threw", "rejected"}
    /\ runs < MaxRuns
    /\ \E k \in Kinds, v \in {"route", "direct"} :
       \E targets \in ListsUpTo(TargetsOf(k), MaxTargets),
          snapshots \in IF k = "competitor" THEN BOOLEAN ELSE {TRUE},
          minDelay \in IF k = "serp" THEN DelayArgs ELSE {Null},
          maxDelay \in IF k = "serp" THEN DelayArgs ELSE {Null} :
          LET cfg == [targets |-> targets,
                      includeSnapshots |-> (k = "competitor") => snapshots,
                      minDelay |-> IF k # "serp" \/ IsNull(minDelay)
                                   THEN minDelayDefault ELSE Get(minDelay),
                      maxDelay |-> IF k # "serp" \/ IsNull(maxDelay)
                                   THEN maxDelayDefault ELSE Get(maxDelay)]
          IN /\ kind' = k
             /\ via' = v
             /\ config' = cfg
             /\ runs' = runs + 1
             /\ results' = <<>>
             /\ logged' = {}
             /\ storeAtCall' = store
             /\ IF v = "route" /\ RouteRejects(k, cfg)
                THEN phase' = "rejected" /\ req' = <<>>
                ELSE IF OperationThrows(k, cfg)
                THEN phase' = "threw" /\ req' = <<>>
                ELSE phase' = "running" /\ req' = Requests(k, cfg)
    /\ UNCHANGED <<store, harnessVars>>

\* what the crawler does with a failed attempt of request i
FailAttempt(i, error) ==
    IF req[i].retryCount < maxRequestRetries
    THEN /\ req' = [req EXCEPT ![i] =
                       [@ EXCEPT !.pc = "queued", !.retryCount = @ + 1,
                                 !.settleTimedOut = FALSE, !.delay = Null,
                                 !.current = Null, !.previous = Null]]
         /\ UNCHANGED logged
    ELSE /\ req' = [req EXCEPT ![i] = [@ EXCEPT !.pc = "failed", !.error = error]]
         /\ logged' = logged \cup {i}

\* the crawler takes a queued request when a slot is free, and navigates
StartAttempt(i) ==
    /\ phase = "running"
    /\ req[i].pc = "queued"
    /\ Cardinality(InFlight) < maxConcurrency(kind)
    /\ req' = [req EXCEPT ![i] = [@ EXCEPT !.pc = "navigating", !.attempts = @ + 1]]
    /\ UNCHANGED <<storeAtCall, kind, via, config, phase, results, store, logged, runs, harnessVars>>

NavigationSucceeds(i) ==
    /\ phase = "running"
    /\ req[i].pc = "navigating"
    /\ IsUrl(req[i].url)
    /\ req' = [req EXCEPT ![i].pc = "loaded"]
    /\ UNCHANGED <<storeAtCall, kind, via, config, phase, results, store, logged, runs, harnessVars>>

\* page.goto fails or times out (always, for a string that is no URL)
NavigationFails(i) ==
    /\ phase = "running"
    /\ req[i].pc = "navigating"
    /\ FailAttempt(i, "navigation")
    /\ UNCHANGED <<storeAtCall, kind, via, config, phase, results, store, runs, harnessVars>>

\* a failure that leaves the snapshot of the failed attempt in the store
HandlerFailsAfterWrite(i) ==
    /\ phase = "running"
    /\ i \in InHandler
    /\ FailAttempt(i, "handler")
    /\ store' = IF req[i].pc = "writing"
                THEN [store EXCEPT ![createSnapshotKey(req[i].url)] = req[i].current]
                ELSE store
    /\ UNCHANGED <<storeAtCall, kind, via, config, phase, results, runs, harnessVars>>

\* an await of the handler rejects (a page operation or a store operation
\* throws); a handler that runs past requestHandlerTimeoutSecs is taken to
\* fail at the await it is suspended on
HandlerFails(i) ==
    /\ phase = "running"
    /\ i \in InHandler
    /\ FailAttempt(i, "handler")
    /\ UNCHANGED <<storeAtCall, kind, via, config, phase, results, store, runs, harnessVars>>

(***************************************************************************)
(* runSerpCrawler.requestHandler                                           *)
(***************************************************************************)
\* waitForLoadState('networkidle') in a try / catch, then the '/sorry/' test
SerpWaitForLoadState(i) ==
    /\ phase = "running" /\ kind = "serp"
    /\ req[i].pc = "loaded"
    /\ \E timedOut \in BOOLEAN, sorry \in BOOLEAN, delay \in Delays(kind, config) :
          IF sorry
          THEN FailAttempt(i, "blocked")
          ELSE /\ req' = [req EXCEPT ![i] =
                             [@ EXCEPT !.pc = "delaying", !.settleTimedOut = timedOut,
                                       !.delay = Some(delay)]]
               /\ UNCHANGED logged
    /\ UNCHANGED <<storeAtCall, kind, via, config, phase, results, store, runs, harnessVars>>

\* the setTimeout every handler awaits before it extracts: the timer fires
\* TimerDuration(delay) after it was set
PolitenessDelay(i) ==
    /\ phase = "running"
    /\ req[i].pc = "delaying"
    /\ req' = [req EXCEPT ![i].pc = "extracting"]
    /\ UNCHANGED <<storeAtCall, kind, via, config, phase, results, store, logged, runs, harnessVars>>

CrawlSerpPages == {<<>>, <<[hasHref |-> TRUE]>>}

SerpExtract(i) ==
    /\ phase = "running" /\ kind = "serp"
    /\ req[i].pc = "extracting"
    /\ \E page \in CrawlSerpPages :
          results' = results \o extractSerpResults(page, req[i].userData.text,
                                                   maxResultsDefault)
    /\ req' = [req EXCEPT ![i] = [@ EXCEPT !.pc = "done", !.pushed = @ + 1]]
    /\ UNCHANGED <<storeAtCall, kind, via, config, phase, store, logged, runs, harnessVars>>

(***************************************************************************)
(* runCompetitorCrawler.requestHandler                                     *)
(***************************************************************************)
\* waitForLoadState('domcontentloaded'): a rejection fails the attempt
LoadStateReached(i) ==
    /\ phase = "running" /\ kind \in {"competitor", "review"}
    /\ req[i].pc = "loaded"
    /\ \E delay \in Delays(kind, config) :
          req' = [req EXCEPT ![i] = [@ EXCEPT !.pc = "delaying", !.delay = Some(delay)]]
    /\ UNCHANGED <<storeAtCall, kind, via, config, phase, results, store, logged, runs, harnessVars>>

LoadStateTimesOut(i) ==
    /\ phase = "running" /\ kind \in {"competitor", "review"}
    /\ req[i].pc = "loaded"
    /\ FailAttempt(i, "timeout")
    /\ UNCHANGED <<storeAtCall, kind, via, config, phase, results, store, runs, harnessVars>>

\* the pages a competitor URL may show
CrawlContents(url, time) ==
    {extractPageContent(c) : c \in
        {[url |-> url, h1 |-> <<>>, h2 |-> <<>>, h3 |-> <<>>, wordCount |-> 0,
          contentHash |-> Md5(<<>>), paragraphs |-> <<>>, images |-> 0,
          internalLinks |-> 0, externalLinks |-> 0, crawledAt |-> time],
         [url |-> url, h1 |-> <<"A">>, h2 |-> <<>>, h3 |-> <<>>, wordCount |-> 120,
          contentHash |-> Md5(<<>>), paragraphs |-> <<"A">>, images |-> 0,
          internalLinks |-> 0, externalLinks |-> 0, crawledAt |-> time]}}

\* extractPageContent resolves; snapshotStore.getValue is awaited next
CompetitorExtract(i) ==
    /\ phase = "running" /\ kind = "competitor"
    /\ req[i].pc = "extracting"
    /\ \E snapshot \in CrawlContents(req[i].url, runs) :
          req' = [req EXCEPT ![i] = [@ EXCEPT !.pc = "reading", !.current = Some(snapshot)]]
    /\ UNCHANGED <<storeAtCall, kind, via, config, phase, results, store, logged, runs, harnessVars>>

\* a handler that stores the snapshot whatever includeSnapshots says
CompetitorGetValueAlwaysStores(i) ==
    /\ phase = "running" /\ kind = "competitor"
    /\ req[i].pc = "reading"
    /\ LET previousSnapshot == store[createSnapshotKey(req[i].url)] IN
       IF config.includeSnapshots
       THEN /\ req' = [req EXCEPT ![i] =
                          [@ EXCEPT !.pc = "writing", !.previous = previousSnapshot]]
            /\ UNCHANGED <<results, store>>
       ELSE /\ req' = [req EXCEPT ![i] =
                          [@ EXCEPT !.pc = "done", !.previous = previousSnapshot,
                                    !.pushed = @ + 1]]
            /\ store' = [store EXCEPT ![createSnapshotKey(req[i].url)] = req[i].current]
            /\ results' = Append(results,
                              CompetitorResultOf(req[i].url, previousSnapshot,
                                                 Get(req[i].current)))
    /\ UNCHANGED <<storeAtCall, kind, via, config, phase, logged, runs, harnessVars>>

\* getValue resolves; detectChanges; then setValue is awaited, or (with
\* includeSnapshots false) the result is pushed at once
CompetitorGetValue(i) ==
    /\ phase = "running" /\ kind = "competitor"
    /\ req[i].pc = "reading"
    /\ LET previousSnapshot == store[createSnapshotKey(req[i].url)] IN
       IF config.includeSnapshots
       THEN /\ req' = [req EXCEPT ![i] =
                          [@ EXCEPT !.pc = "writing", !.previous = previousSnapshot]]
            /\ UNCHANGED results
       ELSE /\ req' = [req EXCEPT ![i] =
                          [@ EXCEPT !.pc = "done", !.previous = previousSnapshot,
                                    !.pushed = @ + 1]]
            /\ results' = Append(results,
                              CompetitorResultOf(req[i].url, previousSnapshot,
                                                 Get(req[i].current)))
    /\ UNCHANGED <<storeAtCall, kind, via, config, phase, store, logged, runs, harnessVars>>

\* setValue resolves, and the result is pushed
CompetitorSetValue(i) ==
    /\ phase = "running" /\ kind = "competitor"
    /\ req[i].pc = "writing"
    /\ store' = [store EXCEPT ![createSnapshotKey(req[i].url)] = req[i].current]
    /\ results' = Append(results,
                      CompetitorResultOf(req[i].url, req[i].previous, Get(req[i].current)))
    /\ req' = [req EXCEPT ![i] = [@ EXCEPT !.pc = "done", !.pushed = @ + 1]]
    /\ UNCHANGED <<storeAtCall, kind, via, config, phase, logged, runs, harnessVars>>

(***************************************************************************)
(* runReviewCrawler.requestHandler                                         *)
(***************************************************************************)
CrawlReviewPages ==
    {<<>>, <<[reviewer |-> TRUE, text |-> TRUE, rating |-> Some(40)]>>}

ReviewExtract(i) ==
    /\ phase = "running" /\ kind = "review"
    /\ req[i].pc = "extracting"
    /\ \E cards \in CrawlReviewPages :
          results' = Append(results,
                         ReviewResultOf(req[i].userData,
                             extractReviews(req[i].userData, cards,
                                            maxReviewsPerSourceDefault)))
    /\ req' = [req EXCEPT ![i] = [@ EXCEPT !.pc = "done", !.pushed = @ + 1]]
    /\ UNCHANGED <<storeAtCall, kind, via, config, phase, store, logged, runs, harnessVars>>

\* crawler.run resolves; return results
Finish ==
    /\ phase = "running"
    /\ \A i \in 1..Len(req) : req[i].pc \in {"done", "failed"}
    /\ phase' = "returned"
    /\ UNCHANGED <<storeAtCall, kind, via, config, req, results, store, logged, runs, harnessVars>>

Next ==
    \/ Call
    \/ \E i \in 1..Len(req) : StartAttempt(i)
    \/ \E i \in 1..Len(req) : NavigationSucceeds(i)
    \/ \E i \in 1..Len(req) : NavigationFails(i)
    \/ \E i \in 1..Len(req) : HandlerFails(i)
    \/ \E i \in 1..Len(req) : SerpWaitForLoadState(i)
    \/ \E i \in 1..Len(req) : LoadStateReached(i)
    \/ \E i \in 1..Len(req) : LoadStateTimesOut(i)
    \/ \E i \in 1..Len(req) : PolitenessDelay(i)
    \/ \E i \in 1..Len(req) : SerpExtract(i)
    \/ \E i \in 1..Len(req) : CompetitorExtract(i)
    \/ \E i \in 1..Len(req) : CompetitorGetValue(i)
    \/ \E i \in 1..Len(req) : CompetitorSetValue(i)
    \/ \E i \in 1..Len(req) : ReviewExtract(i)
    \/ Finish

Spec == Init /\ [][Next]_vars

\* what the HTTP caller is answered (routes), from how the call ended
ResponseStatus ==
    CASE via # "route" -> 0
      [] phase = "rejected" -> 400
      [] phase = "threw" -> 500
      [] phase = "returned" -> 200
      [] OTHER -> 0

(***************************************************************************)
(*                         Properties                                      *)
(***************************************************************************)
Called == output # <<>>

\* C1: on a first visit (no stored snapshot) the change record is all
\* false / zero whatever the current snapshot is, the result reports no
\* previous snapshot and hasChanges is false.
C1_FirstVisitIsBaseline ==
    (Called /\ IsNull(input.previous)) =>
        LET r == Get(output) IN
        /\ r.changes = [headingsChanged |-> FALSE, contentChanged |-> FALSE,
                        wordCountDiff |-> 0, structureChanged |-> FALSE]
        /\ r.previousSnapshot = Null
        /\ r.hasChanges = FALSE
        /\ r.currentSnapshot = input.current

C1_Witness ==
    /\ Called
    /\ IsNull(input.previous)
    /\ input.current.wordCount = 120
    /\ input.current.images = 1
    /\ input.current.internalLinks = MaxLinks
    /\ input.current.h1 # <<>>

\* C2: with a previous snapshot present, contentChanged is true exactly
\* when the two content hashes differ, whatever the other fields are.
C2_ContentChangedIffHashDiffers ==
    (Called /\ ~IsNull(input.previous)) =>
        Get(output).changes.contentChanged
            = (Get(input.previous).contentHash # input.current.contentHash)

C2_Witness ==
    /\ Called
    /\ ~IsNull(input.previous)
    /\ Get(input.previous).contentHash = input.current.contentHash
    /\ Get(input.previous).wordCount # input.current.wordCount
    /\ Get(input.previous).images # input.current.images
    /\ Get(input.previous).internalLinks # input.current.internalLinks
    /\ Get(input.previous).crawledAt # input.current.crawledAt
    /\ ~Get(output).changes.contentChanged

\* C3: with a previous snapshot present, structureChanged is true exactly
\* when the image counts differ or the internal-link counts differ by more
\* than 5; a word-count or external-link change alone never sets it.
C3_StructureChangedRule ==
    (Called /\ ~IsNull(input.previous)) =>
        LET p == Get(input.previous)
            c == input.current
            ch == Get(output).changes
        IN /\ ch.structureChanged
                = (p.images # c.images \/ Abs(p.internalLinks - c.internalLinks) > 5)
           /\ (p.images = c.images /\ Abs(p.internalLinks - c.internalLinks) = 5)
                => ~ch.structureChanged
           /\ (p.images = c.images /\ p.internalLinks = c.internalLinks)
                => ~ch.structureChanged

C3_Witness ==
    /\ Called
    /\ ~IsNull(input.previous)
    /\ input.current.wordCount - Get(input.previous).wordCount = 120
    /\ input.current.images = Get(input.previous).images
    /\ Abs(input.current.internalLinks - Get(input.previous).internalLinks) = 5
    /\ input.current.externalLinks # Get(input.previous).externalLinks
    /\ Get(output).changes.wordCountDiff = 120
    /\ ~Get(output).changes.structureChanged

\* C4: hasChanges is the OR of the three flags and (wordCountDiff # 0),
\* and wordCountDiff is the signed difference current - previous.
C4_HasChangesIsOrOfFour ==
    Called =>
        LET r == Get(output) IN
        /\ r.hasChanges = (\/ r.changes.headingsChanged
                           \/ r.changes.contentChanged
                           \/ r.changes.structureChanged
                           \/ r.changes.wordCountDiff # 0)
        /\ ~IsNull(input.previous) =>
               r.changes.wordCountDiff
                   = input.current.wordCount - Get(input.previous).wordCount

C4_Witness ==
    /\ Called
    /\ Get(output).changes.wordCountDiff < 0
    /\ ~Get(output).changes.headingsChanged
    /\ ~Get(output).changes.contentChanged
    /\ ~Get(output).changes.structureChanged
    /\ Get(output).hasChanges

\* The nodes of a SERP page that carry a link, and the j-th of them.
Linked(page) == {i \in 1..Len(page) : page[i].hasHref}
NthOf(S, j) == CHOOSE i \in S : Cardinality({m \in S : m <= i}) = j

\* C5: extractSerpResults returns the first min(maxResults, #linked) linked
\* candidates in document order, with positions 1..k and no gaps; a skipped
\* candidate neither consumes a position nor counts toward the cap.
C5_DensePositionsOverLinked ==
    Called =>
        LET res == Get(output)
            k == Min(input.maxResults, Cardinality(Linked(input.page)))
        IN /\ Len(res) = k
           /\ \A j \in 1..k :
                  /\ res[j].position = j
                  /\ res[j].url = NthOf(Linked(input.page), j)
                  /\ res[j].keyword = input.keyword

C5_Witness ==
    /\ Called
    /\ Len(input.page) = 8
    /\ Cardinality(Linked(input.page)) = 6
    /\ ~input.page[1].hasHref
    /\ ~input.page[4].hasHref
    /\ input.maxResults = 5
    /\ Len(Get(output)) = 5
    /\ Get(output)[5].position = 5
    /\ Get(output)[5].url = 7

\* The cards of a review page that have the fields the source type requires.
RequiredFields(type, card) ==
    IF type = "trustpilot" THEN card.reviewer /\ card.text ELSE card.text
ValidCards(type, cards) == {i \in 1..Len(cards) : RequiredFields(type, cards[i])}

\* C6: every adapter returns, in page order, the first
\* min(maxReviewsPerSource, m) cards that have the required fields, m being
\* the number of such cards: a skipped card does not count toward the cap.
C6_FirstValidCardsUpToCap ==
    Called =>
        LET res == Get(output).reviews
            valid == ValidCards(input.source.type, input.cards)
            k == Min(input.maxReviewsPerSource, Cardinality(valid))
        IN /\ Len(res) = k
           /\ \A j \in 1..k : res[j].reviewText = NthOf(valid, j)

\* C7: totalReviews is the number of records; averageRating is 0 when there
\* are none and otherwise the mean of the ratings rounded to 2 decimals
\* (the hundredth nearest to sum / count); an unread rating counts as 0.
C7_AverageIsRoundedMean ==
    Called =>
        LET r == Get(output)
            n == Len(r.reviews)
        IN /\ r.totalReviews = n
           /\ n = 0 => r.averageRating = 0
           /\ n > 0 => 2 * Abs(r.averageRating * n - 10 * SumRatings(r.reviews)) <= n
           /\ \A j \in 1..n :
                  IsNull(input.cards[r.reviews[j].reviewText].rating)
                      => r.reviews[j].rating = 0

C7_Witness ==
    /\ Called
    /\ Get(output).totalReviews = 3
    /\ SumRatings(Get(output).reviews) = 130
    /\ Get(output).averageRating = 433

\* The inputs the operations are to refuse.
InvalidInput(k, cfg) ==
    \/ Len(cfg.targets) = 0
    \/ \E i \in 1..Len(cfg.targets) :
          CASE k = "serp" -> ~cfg.targets[i].isString
            [] k = "competitor" -> cfg.targets[i] = "not a url"
            [] k = "review" -> cfg.targets[i].type \notin {"google", "trustpilot", "g2"}

\* C8: every invalid input fails the operation before any navigation: the
\* call ends in an error (thrown by the operation, or the route's 400), no
\* crawler is started and nothing is navigated, also when the operation is
\* called directly.
C8_InvalidInputFailsFast ==
    (phase # "idle" /\ InvalidInput(kind, config)) =>
        /\ phase \in {"threw", "rejected"}
        /\ Len(req) = 0
        /\ Navigations = 0

\* the identity of a request and of the records its handler pushes
RequestKey(q) ==
    CASE kind = "serp" -> q.userData.text
      [] kind = "competitor" -> q.url
      [] kind = "review" -> q.userData.type
ResultKey(r) ==
    CASE kind = "serp" -> r.keyword
      [] kind = "competitor" -> r.url
      [] kind = "review" -> r.source

Handled == {i \in 1..Len(req) : req[i].pc = "done"}
Dropped == {i \in 1..Len(req) : req[i].pc = "failed"}

\* C9: a target is attempted at most 4 times (3 retries); a target that ran
\* out of retries has 4 attempts, no record in the results and one logged
\* failure; the operation never raises once it crawls, and what it returns
\* holds records of the handled targets only (none when all failed).
C9_RetriesThenDroppedNotRaised ==
    /\ \A i \in 1..Len(req) :
          /\ req[i].attempts <= 4
          /\ req[i].retryCount <= 3
          /\ req[i].pc = "failed" =>
                 /\ req[i].attempts = 4
                 /\ req[i].pushed = 0
                 /\ i \in logged
                 /\ \A j \in 1..Len(results) : ResultKey(results[j]) # RequestKey(req[i])
          /\ i \in logged => req[i].pc = "failed"
    /\ phase = "threw" => (Len(req) = 0 /\ Len(config.targets) = 0)
    /\ phase = "returned" =>
          /\ Handled \cup Dropped = 1..Len(req)
          /\ \A j \in 1..Len(results) :
                 \E i \in Handled : ResultKey(results[j]) = RequestKey(req[i])
          /\ \A i \in Handled : req[i].pushed = 1
          /\ Handled = {} => results = <<>>

C9_Witness ==
    /\ phase = "returned"
    /\ kind = "competitor"
    /\ Len(req) = 2
    /\ req[1].pc = "failed" /\ req[1].attempts = 4 /\ req[1].error = "handler"
    /\ req[2].pc = "done"
    /\ Len(results) = 1
    /\ results[1].url = req[2].url

\* C10: a block ('/sorry/') on a SERP target is reported upward: the call
\* does not end as a successful return whose list silently lacks the
\* blocked keyword.
C10_BlockReportedUpward ==
    (kind = "serp" /\ phase = "returned") =>
        \A i \in 1..Len(req) : ~(req[i].pc = "failed" /\ req[i].error = "blocked")

\* C11: a competitor crawl called with includeSnapshots = false leaves the
\* snapshot store as it was at the call, for every key, in every state of the
\* run (whatever the targets, and whatever attempts failed or were retried);
\* each result of the run still carries the snapshot the store holds for its
\* URL as previousSnapshot, and the changes detected against it.
C11_NoSnapshotsLeavesStoreUnchanged ==
    (kind = "competitor" /\ phase \in {"running", "returned"}
        /\ ~config.includeSnapshots) =>
        /\ \A k \in SnapshotKeys : store[k] = storeAtCall[k]
        /\ \A j \in 1..Len(results) :
              LET stored == store[createSnapshotKey(results[j].url)] IN
              /\ results[j].previousSnapshot = stored
              /\ results[j].changes =
                     detectChanges(stored, results[j].currentSnapshot)
              /\ results[j].hasChanges = hasChanges(results[j].changes)

\* a run without snapshots that reports a change against a stored snapshot
C11_Witness ==
    /\ kind = "competitor" /\ phase = "returned"
    /\ ~config.includeSnapshots
    /\ Len(results) = 1
    /\ ~IsNull(results[1].previousSnapshot)
    /\ results[1].hasChanges
    /\ store[createSnapshotKey(results[1].url)] = results[1].previousSnapshot
    /\ Get(results[1].previousSnapshot) # results[1].currentSnapshot
    /\ \E i \in 1..Len(req) : req[i].pc = "done" /\ req[i].retryCount > 0

\* C12: at every moment the number of targets in flight (from the start of
\* the navigation of an attempt to the push of its result or to its failure)
\* is at most the concurrency cap of the kind of crawl: 1 for a SERP crawl, 1
\* for a review crawl, 2 for a competitor crawl; retried attempts count as any
\* other, and nothing is in flight outside a run.
C12_InFlightWithinCap ==
    /\ kind = "serp" => Cardinality(InFlight) <= 1
    /\ kind = "review" => Cardinality(InFlight) <= 1
    /\ kind = "competitor" => Cardinality(InFlight) <= 2
    /\ InHandler \subseteq InFlight
    /\ phase # "running" => InFlight = {}

\* a competitor crawl at its cap: two handlers at once, one of them a retry
C12_Witness ==
    /\ kind = "competitor" /\ phase = "running"
    /\ Cardinality(InHandler) = 2
    /\ \E i \in InHandler : req[i].retryCount > 0

\* the handlers between the issue of their getValue and the end of their setValue
InStoreAccess(k) ==
    {i \in 1..Len(req) :
        /\ kind = "competitor"
        /\ req[i].pc \in {"reading", "writing"}
        /\ createSnapshotKey(req[i].url) = k}

EntriesOf(i) == {j \in 1..Len(results) : ResultKey(results[j]) = RequestKey(req[i])}

\* C14: in a SERP crawl and in a review crawl the returned value
\* tells a target that was crawled, be it with zero records, from a target
\* that was dropped: a crawled target has an entry of its own in the returned
\* list and a dropped target has none.
C14_EmptyDistinctFromDropped ==
    (phase = "returned" /\ kind \in {"serp", "review"}) =>
        \A i \in 1..Len(req) :
            /\ i \in Handled => EntriesOf(i) # {}
            /\ i \in Dropped => EntriesOf(i) = {}

\* the bounds of the politeness delay of the current crawl: those of the
\* call for a SERP crawl, the one fixed delay of the two other kinds
minDelayMs ==
    CASE kind = "serp" -> config.minDelay
      [] kind = "competitor" -> competitorDelay
      [] kind = "review" -> reviewDelay
maxDelayMs ==
    CASE kind = "serp" -> config.maxDelay
      [] kind = "competitor" -> competitorDelay
      [] kind = "review" -> reviewDelay

\* C15: in every kind of crawl a handler that is at its extraction, or past
\* it, has first been suspended for a delay d with minDelayMs <= d <=
\* maxDelayMs; in a SERP crawl for every pair (minDelay, maxDelay) of the
\* call, minDelay > maxDelay and negative values included.
C15_DelayWithinBounds ==
    \A i \in 1..Len(req) :
        req[i].pc \in {"extracting", "reading", "writing", "done"} =>
            /\ ~IsNull(req[i].delay)
            /\ minDelayMs <= TimerDuration(Get(req[i].delay))
            /\ TimerDuration(Get(req[i].delay)) <= maxDelayMs

\* C16: in every kind of crawl a timeout of the wait for the network to
\* settle is not fatal for the target: no target is dropped because that wait
\* timed out; the handler goes on to its delay and its extraction.
C16_SettleTimeoutNonFatal ==
    \A i \in 1..Len(req) : ~(req[i].pc = "failed" /\ req[i].error = "timeout")

SamePage(a, b) == [a EXCEPT !.crawledAt = 0] = [b EXCEPT !.crawledAt = 0]

\* C18: over a sequence of competitor runs, the previousSnapshot a run
\* reports for a URL is the snapshot the store held for that URL when the run
\* was called (absent if none), a snapshot of that URL taken by an earlier
\* run; and when a run has returned, the store holds for a URL the
\* currentSnapshot of the run's result if the run had includeSnapshots = true
\* and produced a result for the URL, and what it held at the call otherwise
\* (includeSnapshots = false, target dropped or not submitted, or a crawl of
\* another kind).  Hence the previousSnapshot is the currentSnapshot of the
\* most recent earlier run that persisted a result for the URL.  A result
\* whose previous and current snapshot show the same page has the same
\* contentHash in both and hasChanges = false.
C18_PreviousIsLastPersisted ==
    /\ kind = "competitor" =>
          \A j \in 1..Len(results) :
              LET r == results[j] IN
              /\ r.previousSnapshot = storeAtCall[createSnapshotKey(r.url)]
              /\ ~IsNull(r.previousSnapshot) =>
                    /\ Get(r.previousSnapshot).url = r.url
                    /\ Get(r.previousSnapshot).crawledAt < r.currentSnapshot.crawledAt
                    /\ SamePage(Get(r.previousSnapshot), r.currentSnapshot) =>
                          /\ Get(r.previousSnapshot).contentHash =
                                 r.currentSnapshot.contentHash
                          /\ ~r.hasChanges
    /\ phase \in {"returned", "threw", "rejected"} =>
          \A url \in CompetitorUrls :
              LET persisted == {j \in 1..Len(results) :
                                   /\ kind = "competitor"
                                   /\ config.includeSnapshots
                                   /\ results[j].url = url} IN
              /\ Cardinality(persisted) <= 1
              /\ \A j \in persisted :
                    store[createSnapshotKey(url)] = Some(results[j].currentSnapshot)
              /\ persisted = {} =>
                    store[createSnapshotKey(url)] = storeAtCall[createSnapshotKey(url)]

\* a second run over a URL whose page did not change since the persisted
\* first run: the previous snapshot is the one of run 1, no change reported
C18_Witness ==
    /\ kind = "competitor" /\ phase = "returned"
    /\ runs = 2
    /\ Len(results) = 1
    /\ ~IsNull(results[1].previousSnapshot)
    /\ Get(results[1].previousSnapshot).crawledAt = 1
    /\ results[1].currentSnapshot.crawledAt = 2
    /\ SamePage(Get(results[1].previousSnapshot), results[1].currentSnapshot)
    /\ ~results[1].hasChanges
    /\ store[createSnapshotKey(results[1].url)] = Some(results[1].currentSnapshot)

====
